---- MODULE Spec2Model ----
(***************************************************************************)
(* Model of flashbrain.py, the adaptive scheduler of the Mandarin          *)
(* flashcards: the question bank and the progress log as files, the two    *)
(* loaders, record_result, compute_priority and select_next_question.      *)
(*                                                                         *)
(* Numbers.  The code computes with floats; the model computes the same    *)
(* quantities exactly, as integers in fixed units:                         *)
(*   - time (now, timestamp) in half-lives of 18 h, so that                *)
(*     decay = exp(hours_since * ln(0.5) / 18) = 2^-(now - timestamp);     *)
(*   - seconds in whole seconds, slow_penalty and tricky_bonus in          *)
(*     quarters, miss_factor in fifths, 1 - decay in units of 1/DecayDen;  *)
(*   - a score in units of 1 / (4 * 5 * DecayDen).                         *)
(* A float has 53 bits of mantissa: 1 - decay is exactly 1.0 once decay    *)
(* is at most 2^-54 (SaturationHalfLives).                                 *)
(*                                                                         *)
(* Files.  A file is a sequence of tokens, a token being a run of bytes    *)
(* that one write(2) call transfers whole.  json.dumps(entry) + "\n" is    *)
(* two tokens: the head of the JSON text, and its tail with the newline.   *)
(***************************************************************************)
EXTENDS Integers, Sequences, FiniteSets, TLC

(* ---------- bounds of the model ---------- *)

\* the clock runs over 0..MaxClock half-lives (and FarNow after a long break)
MaxClock == 1
\* record_result is called at most MaxCalls times in a run
MaxCalls == 2
\* the question bank holds at most MaxBank lines
MaxBank == 2
\* the files read by the loaders alone hold at most MaxLines lines
MaxLines == 2
\* the attempts of one record go from 1 to MaxAttempts
MaxAttempts == 8

(* ---------- constants of the program ---------- *)

TrickyBonusQ == 1
UnseenBaseQ == 20
SlowCapQ == 6
MissBase5 == 5
IncorrectWeight5 == 6
CorrectWeight5 == 1
SaturationHalfLives == 54
DefaultAttempts == 1
DefaultSeconds == 0

RECURSIVE Pow2(_)
Pow2(n) == IF n <= 0 THEN 1 ELSE 2 * Pow2(n - 1)

\* 1 - decay is counted in units of 1/DecayDen
DecayDen == Pow2(MaxClock)
\* a clock value at which every record of the run is saturated
FarNow == SaturationHalfLives + MaxClock
Nows == (0..MaxClock) \cup {FarNow}

Procs == {1, 2}
QIds == {"q1", "q2"}

Max(a, b) == IF a >= b THEN a ELSE b
Min(a, b) == IF a <= b THEN a ELSE b

(* ---------- files ---------- *)

\* the text of one JSON object, followed by "\n": json.dumps(entry) + "\n"
Dumps(raw) ==
  << [k |-> "head", obj |-> raw, nl |-> FALSE],
     [k |-> "tail", obj |-> raw, nl |-> TRUE] >>

RECURSIVE SplitLines(_, _, _)
\* `for line in f`: the lines of a file, each ended by its newline (the last
\* one perhaps by the end of the file)
SplitLines(file, cur, acc) ==
  IF file = <<>>
  THEN IF cur = <<>> THEN acc ELSE Append(acc, cur)
  ELSE IF Head(file).nl
       THEN SplitLines(Tail(file), <<>>, Append(acc, Append(cur, Head(file))))
       ELSE SplitLines(Tail(file), Append(cur, Head(file)), acc)

FileLines(file) == SplitLines(file, <<>>, <<>>)

\* line.strip() is empty
IsBlank(line) == \A i \in 1..Len(line) : line[i].k = "ws"

\* json.loads(line) returns an object
IsJson(line) ==
  /\ Len(line) = 2
  /\ line[1].k = "head"
  /\ line[2].k = "tail"
  /\ line[1].obj = line[2].obj

JsonLoads(line) == line[1].obj

(* ---------- data models ---------- *)

\* raw.get(key, default)
Get(raw, key, default) == IF key \in raw.has THEN raw[key] ELSE default

QuestionFromDict(raw) ==
  [id |-> raw.id, type |-> raw.type, tags |-> Get(raw, "tags", {}), payload |-> raw]

QuestionRequired == {"id", "type"}

\* the attempts of the line forgotten
HistoryFromDictNoAttempts(raw, now) ==
  [question_id |-> raw.question_id,
   attempts |-> DefaultAttempts,
   seconds |-> Get(raw, "seconds", DefaultSeconds),
   correct |-> Get(raw, "correct", FALSE),
   timestamp |-> Get(raw, "timestamp", now)]

HistoryFromDict(raw, now) ==
  [question_id |-> raw.question_id,
   attempts |-> Get(raw, "attempts", DefaultAttempts),
   seconds |-> Get(raw, "seconds", DefaultSeconds),
   correct |-> Get(raw, "correct", FALSE),
   timestamp |-> Get(raw, "timestamp", now)]

HistoryRequired == {"question_id"}

(* ---------- IO helpers ---------- *)

Loaded(recs) == [err |-> "none", records |-> recs]
Raised(e) == [err |-> e, records |-> <<>>]

RECURSIVE LoadQuestionLines(_, _)
LoadQuestionLines(lines, acc) ==
  IF lines = <<>> THEN Loaded(acc)
  ELSE IF IsBlank(Head(lines)) THEN LoadQuestionLines(Tail(lines), acc)
  ELSE IF ~IsJson(Head(lines)) THEN Raised("JSONDecodeError")
  ELSE IF ~(QuestionRequired \subseteq JsonLoads(Head(lines)).has) THEN Raised("KeyError")
  ELSE LoadQuestionLines(Tail(lines), Append(acc, QuestionFromDict(JsonLoads(Head(lines)))))

load_questions(exists, file) ==
  IF ~exists THEN Raised("FileNotFoundError")
  ELSE LoadQuestionLines(FileLines(file), <<>>)

RECURSIVE LoadHistoryLinesLenient(_, _, _)
\* best-effort loading: a line that does not parse is skipped
LoadHistoryLinesLenient(lines, now, acc) ==
  IF lines = <<>> THEN Loaded(acc)
  ELSE IF IsBlank(Head(lines)) \/ ~IsJson(Head(lines))
       THEN LoadHistoryLinesLenient(Tail(lines), now, acc)
  ELSE IF ~(HistoryRequired \subseteq JsonLoads(Head(lines)).has) THEN Raised("KeyError")
  ELSE LoadHistoryLinesLenient(Tail(lines), now,
                               Append(acc, HistoryFromDict(JsonLoads(Head(lines)), now)))

RECURSIVE LoadHistoryLines(_, _, _)
LoadHistoryLines(lines, now, acc) ==
  IF lines = <<>> THEN Loaded(acc)
  ELSE IF IsBlank(Head(lines)) THEN LoadHistoryLines(Tail(lines), now, acc)
  ELSE IF ~IsJson(Head(lines)) THEN Raised("JSONDecodeError")
  ELSE IF ~(HistoryRequired \subseteq JsonLoads(Head(lines)).has) THEN Raised("KeyError")
  ELSE LoadHistoryLines(Tail(lines), now,
                        Append(acc, HistoryFromDict(JsonLoads(Head(lines)), now)))

load_history(exists, file, now) ==
  IF ~exists THEN Loaded(<<>>)
  ELSE LoadHistoryLines(FileLines(file), now, <<>>)

(* ---------- Scoring ---------- *)

\* the filter forgotten: every record counts for every question
FilterAll(history, qid) == history

RECURSIVE Filter(_, _)
\* [h for h in history if h.question_id == qid]
Filter(history, qid) ==
  IF history = <<>> THEN <<>>
  ELSE IF Head(history).question_id = qid
       THEN <<Head(history)>> \o Filter(Tail(history), qid)
       ELSE Filter(Tail(history), qid)

\* the first record of the question instead of the latest one
FirstRecord(best, rest) == best

RECURSIVE MaxByTimestamp(_, _)
\* max(filtered, key=lambda h: h.timestamp): the first of the latest records
MaxByTimestamp(best, rest) ==
  IF rest = <<>> THEN best
  ELSE IF Head(rest).timestamp > best.timestamp
       THEN MaxByTimestamp(Head(rest), Tail(rest))
       ELSE MaxByTimestamp(best, Tail(rest))

Seen(history, qid) == Filter(history, qid) # <<>>

\* _last_seen, where a record is returned (Seen)
LastSeen(history, qid) ==
  LET filtered == Filter(history, qid)
  IN MaxByTimestamp(Head(filtered), Tail(filtered))

RECURSIVE SumAttempts(_)
SumAttempts(filtered) ==
  IF filtered = <<>> THEN 0 ELSE Head(filtered).attempts + SumAttempts(Tail(filtered))

RECURSIVE CountCorrect(_)
\* the test of correct turned around: the correct records are counted
CountCorrect(filtered) ==
  IF filtered = <<>> THEN 0
  ELSE (IF Head(filtered).correct THEN 1 ELSE 0) + CountCorrect(Tail(filtered))

RECURSIVE CountIncorrect(_)
CountIncorrect(filtered) ==
  IF filtered = <<>> THEN 0
  ELSE (IF Head(filtered).correct THEN 0 ELSE 1) + CountIncorrect(Tail(filtered))

\* tricky_bonus, in quarters
TrickyBonus(question) == IF "tricky" \in question.tags THEN TrickyBonusQ ELSE 0

\* the weights mixed up: an incorrect record counts for nothing
MissFactorNoIncorrect(history, qid) ==
  LET attempts == SumAttempts(Filter(history, qid))
      incorrect == CountIncorrect(Filter(history, qid))
  IN MissBase5 + Max(0, attempts - incorrect) * CorrectWeight5

\* miss_factor, in fifths
MissFactor(history, qid) ==
  LET attempts == SumAttempts(Filter(history, qid))
      incorrect == CountIncorrect(Filter(history, qid))
  IN MissBase5 + incorrect * IncorrectWeight5 + Max(0, attempts - incorrect) * CorrectWeight5

\* slow_penalty, in quarters
SlowPenalty(last) == Min(SlowCapQ, last.seconds)

\* decay in the place of 1 - decay
DecayItself(elapsed) ==
  CASE elapsed >= SaturationHalfLives -> 0
    [] elapsed >= 0 /\ elapsed <= MaxClock -> Pow2(MaxClock - elapsed)
    [] elapsed < 0 /\ elapsed >= -MaxClock -> Pow2(MaxClock) * Pow2(-elapsed)

\* 1 - decay in units of 1/DecayDen, for now - last.timestamp = elapsed
\* half-lives: 1 - 2^-elapsed, which a float rounds to 1.0 from
\* SaturationHalfLives on.  Elapsed times between MaxClock and
\* SaturationHalfLives need finer units and are not enumerated.
OneMinusDecay(elapsed) ==
  CASE elapsed >= SaturationHalfLives -> DecayDen
    [] elapsed >= 0 /\ elapsed <= MaxClock -> DecayDen - Pow2(MaxClock - elapsed)
    [] elapsed < 0 /\ elapsed >= -MaxClock -> DecayDen - Pow2(MaxClock) * Pow2(-elapsed)

\* (1 + tricky_bonus + slow_penalty) * miss_factor, in score units
Asymptote(question, history) ==
  (4 + TrickyBonus(question) + SlowPenalty(LastSeen(history, question.id)))
    * MissFactor(history, question.id) * DecayDen

compute_priority(question, history, now) ==
  IF ~Seen(history, question.id)
  THEN (UnseenBaseQ + TrickyBonus(question)) * 5 * DecayDen
  ELSE LET last == LastSeen(history, question.id)
       IN (4 + TrickyBonus(question) + SlowPenalty(last))
            * MissFactor(history, question.id)
            * OneMinusDecay(now - last.timestamp)

\* the score 5.0 (and 5.25) in score units
ScoreOf(quarters) == quarters * 5 * DecayDen

\* scored: the (score, question) pairs in the order of the list
RECURSIVE Scored(_, _, _)
Scored(questions, history, now) ==
  IF questions = <<>> THEN <<>>
  ELSE <<[score |-> compute_priority(Head(questions), history, now), q |-> Head(questions)]>>
         \o Scored(Tail(questions), history, now)

RECURSIVE InsertDescUnstable(_, _)
\* an unstable sort: x goes in front of the pairs of equal score
InsertDescUnstable(sorted, x) ==
  IF sorted = <<>> THEN <<x>>
  ELSE IF Head(sorted).score > x.score
       THEN <<Head(sorted)>> \o InsertDescUnstable(Tail(sorted), x)
       ELSE <<x>> \o sorted

RECURSIVE InsertDesc(_, _)
\* x goes behind every pair whose score is at least its own
InsertDesc(sorted, x) ==
  IF sorted = <<>> THEN <<x>>
  ELSE IF Head(sorted).score >= x.score
       THEN <<Head(sorted)>> \o InsertDesc(Tail(sorted), x)
       ELSE <<x>> \o sorted

RECURSIVE SortDesc(_, _)
\* scored.sort(key=lambda x: x[0], reverse=True): a stable sort, highest
\* score first, pairs of equal score in their original order
SortDesc(scored, sorted) ==
  IF scored = <<>> THEN sorted
  ELSE SortDesc(Tail(scored), InsertDesc(sorted, Head(scored)))

\* no question is returned
NoQuestion == [id |-> "", type |-> "", tags |-> {}, payload |-> [has |-> {}, id |-> "", type |-> "", tags |-> {}]]

\* an empty list answered with nothing instead of an error
SelectOrNothing(questions, history, now) ==
  IF questions = <<>>
  THEN [err |-> "none", choice |-> NoQuestion]
  ELSE [err |-> "none",
        choice |-> SortDesc(Scored(questions, history, now), <<>>)[1].q]

select_next_question(questions, history, now) ==
  IF questions = <<>>
  THEN [err |-> "IndexError", choice |-> NoQuestion]
  ELSE [err |-> "none",
        choice |-> SortDesc(Scored(questions, history, now), <<>>)[1].q]

(* ---------- state ---------- *)

VARIABLES
  bankExists,   \* question_bank.jsonl exists
  bankFile,     \* its content
  logExists,    \* progress.jsonl exists
  logFile,      \* its content
  clock,        \* time.time(), in half-lives
  pc,           \* per process: "idle", or "flush" inside record_result
  entry,        \* per process: the entry of its latest record_result
  sent,         \* per process: the tokens of its line already written out
  result        \* what the latest main() ended with

vars == <<bankExists, bankFile, logExists, logFile, clock, pc, entry, sent, result>>

\* what a learner reports: (attempts, seconds, correct)
Outcomes == {<<1, 0, TRUE>>, <<2, 8, FALSE>>}

QuestionRaw(id, tags) == [has |-> {"id", "type", "tags"}, id |-> id, type |-> "hear_pick", tags |-> tags]
\* a line of the bank as createQuestionBank.py writes it: no "tags" key
QuestionRawNoTags(id) == [has |-> {"id", "type"}, id |-> id, type |-> "hear_pick", tags |-> {}]

NoEntry == [has |-> {}, question_id |-> "", attempts |-> 0, seconds |-> 0, correct |-> FALSE, timestamp |-> 0]

\* entry = {...}: the dict record_result builds
Entry(question_id, attempts, seconds, correct, now) ==
  [has |-> {"question_id", "attempts", "seconds", "correct", "timestamp"},
   question_id |-> question_id, attempts |-> attempts, seconds |-> seconds,
   correct |-> correct, timestamp |-> now]

RECURSIVE SeqsUpTo(_, _)
\* the sequences over S of length at most n
SeqsUpTo(S, n) ==
  IF n = 0 THEN {<<>>}
  ELSE SeqsUpTo(S, n - 1) \cup
       {Append(s, x) : s \in {t \in SeqsUpTo(S, n - 1) : Len(t) = n - 1}, x \in S}

\* those of them that repeat no element
DistinctSeqsUpTo(S, n) ==
  {s \in SeqsUpTo(S, n) : \A i, j \in 1..Len(s) : s[i] = s[j] => i = j}

RECURSIVE Flatten(_)
Flatten(lines) == IF lines = <<>> THEN <<>> ELSE Head(lines) \o Flatten(Tail(lines))

\* the lines of a well-formed bank
BankLines ==
  {Dumps(QuestionRaw("q1", {"tricky"})), Dumps(QuestionRawNoTags("q1")),
   Dumps(QuestionRawNoTags("q2"))}

\* the tokens not yet written out
Unsent(p) == IF pc[p] = "flush" THEN Len(Dumps(entry[p])) - sent[p] ELSE 0

RECURSIVE SumUnsent(_)
SumUnsent(P) ==
  IF P = {} THEN 0 ELSE LET p == CHOOSE x \in P : TRUE IN Unsent(p) + SumUnsent(P \ {p})

\* the calls of record_result begun so far, each of them a line of two tokens
CallsBegun == (Len(logFile) + SumUnsent(Procs)) \div 2

\* what a process holds when its latest call returned nothing
NoResult == [err |-> "none", choice |-> NoQuestion]

Init ==
  /\ bankExists = TRUE
  /\ bankFile \in {Flatten(b) : b \in DistinctSeqsUpTo(BankLines, MaxBank)}
  /\ logExists = FALSE
  /\ logFile = <<>>
  /\ clock = 0
  /\ pc = [p \in Procs |-> "idle"]
  /\ entry = [p \in Procs |-> NoEntry]
  /\ sent = [p \in Procs |-> 0]
  /\ result = NoResult

(* ---------- operations ---------- *)

\* time passes
Tick ==
  /\ clock < MaxClock
  /\ clock' = clock + 1
  /\ UNCHANGED <<bankExists, bankFile, logExists, logFile, pc, entry, sent, result>>

\* the learner stays away for more than SaturationHalfLives half-lives
LongBreak ==
  /\ clock <= MaxClock
  /\ \A p \in Procs : pc[p] = "idle"
  /\ clock' = FarNow
  /\ UNCHANGED <<bankExists, bankFile, logExists, logFile, pc, entry, sent, result>>

\* path.open("w"): the file is emptied
OpenTruncate(file) == <<>>

\* path.open("a"): the file is created when absent, its content is kept
OpenAppend(file) == file

\* record_result up to f.write: the entry is built, the log is opened for
\* appending and the line is in the buffer of f
RecordResult(p, question_id, attempts, seconds, correct) ==
  /\ pc[p] = "idle"
  /\ clock <= MaxClock
  /\ CallsBegun < MaxCalls
  /\ entry' = [entry EXCEPT ![p] = Entry(question_id, attempts, seconds, correct, clock)]
  /\ logExists' = TRUE
  /\ logFile' = OpenAppend(logFile)
  /\ sent' = [sent EXCEPT ![p] = 0]
  /\ pc' = [pc EXCEPT ![p] = "flush"]
  /\ result' = NoResult
  /\ UNCHANGED <<bankExists, bankFile, clock>>

\* leaving the with block closes f, which flushes the buffer: one write(2)
\* call puts the next n tokens at the end of the file (O_APPEND); the call
\* may be short, and then another follows.  record_result returns when the
\* buffer is empty.
FlushWrite(p, n) ==
  /\ pc[p] = "flush"
  /\ n >= 1
  /\ sent[p] + n <= Len(Dumps(entry[p]))
  /\ logFile' = logFile \o SubSeq(Dumps(entry[p]), sent[p] + 1, sent[p] + n)
  /\ sent' = [sent EXCEPT ![p] = sent[p] + n]
  /\ pc' = [pc EXCEPT ![p] = IF sent[p] + n = Len(Dumps(entry[p])) THEN "idle" ELSE "flush"]
  /\ UNCHANGED <<bankExists, bankFile, logExists, clock, entry, result>>

\* main(): load both files, select, print the choice
MainResult ==
  LET questions == load_questions(bankExists, bankFile)
      history == load_history(logExists, logFile, clock)
  IN IF questions.err # "none" THEN [err |-> questions.err, choice |-> NoQuestion]
     ELSE IF history.err # "none" THEN [err |-> history.err, choice |-> NoQuestion]
     ELSE select_next_question(questions.records, history.records, clock)

Main(p) ==
  /\ pc[p] = "idle"
  /\ result' = MainResult
  /\ UNCHANGED <<bankExists, bankFile, logExists, logFile, clock, pc, entry, sent>>

Step(p) ==
  \/ \E q \in QIds, o \in Outcomes : RecordResult(p, q, o[1], o[2], o[3])
  \/ \E n \in 1..2 : FlushWrite(p, n)
  \/ Main(p)

\* one scheduler process
Next ==
  \/ Tick
  \/ LongBreak
  \/ Step(1)

Spec == Init /\ [][Next]_vars

\* two scheduler processes on the same log
NextConc ==
  \/ Tick
  \/ LongBreak
  \/ \E p \in Procs : Step(p)

SpecConc == Init /\ [][NextConc]_vars

(* ---------- the loaders alone, on files written by others ---------- *)

\* the lines a hand-edited or foreign log may hold
ExtLogLines ==
  {Dumps(Entry("q1", 2, 8, FALSE, 0)),
   Dumps([NoEntry EXCEPT !.has = {"question_id"}, !.question_id = "q2"]),
   Dumps([Entry("q1", 1, 0, TRUE, 0) EXCEPT !.has = @ \ {"question_id"}]),
   <<[k |-> "ws", obj |-> NoEntry, nl |-> TRUE]>>,
   <<[k |-> "junk", obj |-> NoEntry, nl |-> TRUE]>>}

ExtBankLines ==
  {Dumps(QuestionRaw("q1", {"tricky"})),
   Dumps(QuestionRawNoTags("q2")),
   Dumps([QuestionRawNoTags("q2") EXCEPT !.has = {"id"}]),
   <<[k |-> "ws", obj |-> NoQuestion.payload, nl |-> TRUE]>>,
   <<[k |-> "junk", obj |-> NoQuestion.payload, nl |-> TRUE]>>}

InitLoad ==
  /\ bankExists \in BOOLEAN
  /\ bankFile \in {Flatten(b) : b \in SeqsUpTo(ExtBankLines, MaxLines)}
  /\ ~bankExists => bankFile = <<>>
  /\ logExists \in BOOLEAN
  /\ logFile \in {Flatten(b) : b \in SeqsUpTo(ExtLogLines, MaxLines)}
  /\ ~logExists => logFile = <<>>
  /\ clock = 0
  /\ pc = [p \in Procs |-> "idle"]
  /\ entry = [p \in Procs |-> NoEntry]
  /\ sent = [p \in Procs |-> 0]
  /\ result = NoResult

NextLoad ==
  \/ Tick
  \/ Main(1)

SpecLoad == InitLoad /\ [][NextLoad]_vars

(* ---------- what the claims look at ---------- *)

\* the questions and the history main() would load in this state
Questions == load_questions(bankExists, bankFile)
HistoryNow == load_history(logExists, logFile, clock)
BothLoaded == Questions.err = "none" /\ HistoryNow.err = "none"

Score(q, now) == compute_priority(q, HistoryNow.records, now)

(* ---------- C1 ---------- *)

\* C1: for a non-empty list of questions, select_next_question returns a
\* question whose score (all scores at the one now of the call, the clock)
\* is the highest of the list, and of the questions with that score the
\* one at the smallest index of the list.
C1_SelectsFirstMaximum ==
  \A loaded \in {Questions}, history \in {HistoryNow} :
    (loaded.err = "none" /\ history.err = "none" /\ loaded.records # <<>>) =>
      \A qs \in {loaded.records},
         r \in {select_next_question(loaded.records, history.records, clock)},
         score \in {[j \in 1..Len(loaded.records) |->
                      compute_priority(loaded.records[j], history.records, clock)]} :
        \E i \in 1..Len(qs) :
          /\ r.err = "none"
          /\ r.choice = qs[i]
          /\ \A j \in 1..Len(qs) : score[j] <= score[i]
          /\ \A j \in 1..(i - 1) : score[j] < score[i]

\* main() has just chosen the first of two different questions that share
\* the highest score, on a log that is not empty
C1_Witness ==
  /\ BothLoaded
  /\ HistoryNow.records # <<>>
  /\ result = MainResult
  /\ result.err = "none"
  /\ LET qs == Questions.records
     IN \E i, j \in 1..Len(qs) :
          /\ i < j
          /\ qs[i] # qs[j]
          /\ Score(qs[i], clock) = Score(qs[j], clock)
          /\ \A k \in 1..Len(qs) : Score(qs[k], clock) <= Score(qs[i], clock)
          /\ result.choice = qs[i]

(* ---------- C3 ---------- *)

\* C3: a question with no record of its id in the history scores 5.25 if
\* it is tagged "tricky" and 5.0 otherwise, whatever now is and whatever
\* records of other questions the history holds.
C3_UnseenScore ==
  \A loaded \in {Questions}, history \in {HistoryNow} :
    (loaded.err = "none" /\ history.err = "none") =>
      \A qs \in {loaded.records}, h \in {history.records} :
        \A i \in 1..Len(qs), now \in Nows :
         (\A k \in 1..Len(h) : h[k].question_id # qs[i].id) =>
           compute_priority(qs[i], h, now)
             = IF "tricky" \in qs[i].tags THEN ScoreOf(21) ELSE ScoreOf(20)

\* main() has chosen a tricky question that has no record, while the
\* history holds records of another question
C3_Witness ==
  /\ BothLoaded
  /\ HistoryNow.records # <<>>
  /\ result = MainResult
  /\ result.err = "none"
  /\ "tricky" \in result.choice.tags
  /\ \A k \in 1..Len(HistoryNow.records) :
       HistoryNow.records[k].question_id # result.choice.id
  /\ Score(result.choice, clock) = ScoreOf(21)

(* ---------- C6 ---------- *)

\* C6: select_next_question fails (scored[0] raises IndexError, the
\* EmptyBank error) if and only if the list of questions is empty: then it
\* returns no question; on a list that is not empty it returns a question
\* of the list and raises nothing.
C6_EmptyBankIffEmpty ==
  \A loaded \in {Questions}, history \in {HistoryNow} :
    (loaded.err = "none" /\ history.err = "none") =>
      \A qs \in {loaded.records},
         r \in {select_next_question(loaded.records, history.records, clock)} :
        /\ (r.err = "IndexError") <=> (qs = <<>>)
        /\ qs = <<>> => r.choice = NoQuestion
        /\ qs # <<>> => r.err = "none" /\ \E i \in 1..Len(qs) : r.choice = qs[i]

\* main() has failed on a bank that exists and holds no question
C6_Witness ==
  /\ Questions.err = "none"
  /\ Questions.records = <<>>
  /\ result.err = "IndexError"
  /\ result.choice = NoQuestion

(* ---------- C2 ---------- *)

\* C2: if a question of the bank has no record, select_next_question
\* returns a question that has no record; every score of a question that
\* has records is below 5.0.
C2_UnseenDominates ==
  (BothLoaded /\ Questions.records # <<>>) =>
    LET qs == Questions.records
        h == HistoryNow.records
    IN /\ (\E i \in 1..Len(qs) : ~Seen(h, qs[i].id))
            => ~Seen(h, select_next_question(qs, h, clock).choice.id)
       /\ \A i \in 1..Len(qs) : Seen(h, qs[i].id) => Score(qs[i], clock) < ScoreOf(20)

(* ---------- C4 ---------- *)

\* what the log held when the call of p that returns in this step began:
\* all but the tokens of its line
BeforeCall(p) == SubSeq(logFile', 1, Len(logFile') - Len(Dumps(entry[p])))

C4Step ==
  \* the log as it was is a prefix of the log as it is
  /\ Len(logFile) <= Len(logFile')
  /\ SubSeq(logFile', 1, Len(logFile)) = logFile
  /\ logExists => logExists'
  \* a step that writes nothing out (main, the start of record_result)
  \* leaves the log as it is
  /\ (\A p \in Procs : sent'[p] <= sent[p]) => logFile' = logFile
  /\ \A p \in Procs :
       \* a write puts exactly the tokens it takes from the buffer
       /\ sent'[p] > sent[p] => Len(logFile') = Len(logFile) + (sent'[p] - sent[p])
       \* the call returns: one line more, the record, at the end
       /\ (pc[p] = "flush" /\ pc'[p] = "idle") =>
            FileLines(logFile') = Append(FileLines(BeforeCall(p)), Dumps(entry[p]))

\* C4: with one writer the log is append-only: every step of record_result
\* keeps the log it found as a prefix, a call adds exactly one record at
\* the end, and main (load_history, select_next_question) leaves the log
\* unchanged.
C4_AppendOnly == [][C4Step]_vars

\* two calls have returned and main() has read the log of two records
C4_Witness ==
  /\ pc[1] = "idle"
  /\ Len(FileLines(logFile)) = 2
  /\ FileLines(logFile)[1] # FileLines(logFile)[2]
  /\ result = MainResult
  /\ result.err = "none"
  /\ result.choice # NoQuestion

(* ---------- C5 ---------- *)

C5Step ==
  \A p \in Procs :
    \* the entry is stamped with the time of the call
    /\ (pc[p] = "idle" /\ pc'[p] = "flush") =>
         /\ entry'[p].timestamp = clock
         /\ entry'[p].has = {"question_id", "attempts", "seconds", "correct", "timestamp"}
    \* the call returns: load_history gives what it gave before, and the record
    /\ (pc[p] = "flush" /\ pc'[p] = "idle") =>
         LET h0 == load_history(BeforeCall(p) # <<>>, BeforeCall(p), clock')
             h1 == load_history(logExists', logFile', clock')
         IN /\ h0.err = "none"
            /\ h1.err = "none"
            /\ h1.records =
                 Append(h0.records,
                        [question_id |-> entry[p].question_id,
                         attempts |-> entry[p].attempts,
                         seconds |-> entry[p].seconds,
                         correct |-> entry[p].correct,
                         timestamp |-> entry[p].timestamp])

NotBlank(line) == ~IsBlank(line)

MarkedIncorrect(h, k) == [h EXCEPT ![k].correct = FALSE]

\* C8 as claimed: at any now, marking one more record of the question
\* incorrect does not lower its score.
C8_MonotoneInIncorrect ==
  \A loaded \in {Questions}, history \in {HistoryNow} :
    (loaded.err = "none" /\ history.err = "none") =>
      \A qs \in {loaded.records}, h \in {history.records} :
        \A i \in 1..Len(qs), now \in Nows, k \in 1..Len(h) :
          (h[k].question_id = qs[i].id /\ h[k].correct) =>
            compute_priority(qs[i], MarkedIncorrect(h, k), now)
              >= compute_priority(qs[i], h, now)

\* C8 as amended: at any now that is not before the timestamp of the
\* latest record of the question, marking one more record of the question
\* incorrect does not lower its score.
C8_MonotoneFromLastSeen ==
  \A loaded \in {Questions}, history \in {HistoryNow} :
    (loaded.err = "none" /\ history.err = "none") =>
      \A qs \in {loaded.records}, h \in {history.records} :
        \A i \in 1..Len(qs), now \in Nows, k \in 1..Len(h) :
          (/\ h[k].question_id = qs[i].id
           /\ h[k].correct
           /\ now >= LastSeen(h, qs[i].id).timestamp) =>
            compute_priority(qs[i], MarkedIncorrect(h, k), now)
              >= compute_priority(qs[i], h, now)

\* main() has scored a question that has two records, a correct one among
\* them, after its latest record: marked incorrect, the score is higher
C8_Witness ==
  /\ BothLoaded
  /\ result = MainResult
  /\ result.err = "none"
  /\ \E i \in 1..Len(Questions.records) :
       LET q == Questions.records[i]
           h == HistoryNow.records
       IN /\ Len(Filter(h, q.id)) = 2
          /\ clock > LastSeen(h, q.id).timestamp
          /\ \E k \in 1..Len(h) :
               /\ h[k].question_id = q.id
               /\ h[k].correct
               /\ compute_priority(q, MarkedIncorrect(h, k), clock)
                    > compute_priority(q, h, clock)

(* ---------- C9 ---------- *)

C10_ConcurrentAppendsWhole ==
  (\A p \in Procs : pc[p] = "idle") =>
    /\ HistoryNow.err = "none"
    /\ Len(HistoryNow.records) = CallsBegun
    /\ \A p \in Procs :
         entry[p] # NoEntry =>
           \E k \in 1..Len(HistoryNow.records) :
             HistoryNow.records[k] = HistoryFromDict(entry[p], clock)

(* ---------- C11 ---------- *)

\* the latest record of the question has the timestamp now
JustAnswered(h, qid, now) ==
  /\ \E k \in 1..Len(h) : h[k].question_id = qid /\ h[k].timestamp = now
  /\ \A k \in 1..Len(h) : h[k].question_id = qid => h[k].timestamp <= now

\* the question has no record, or its records are all from before now
DueAgain(h, qid, now) ==
  \A k \in 1..Len(h) : h[k].question_id = qid => h[k].timestamp < now

\* C11 as claimed: in a list of at least two questions, a question whose
\* latest record has the timestamp of the call's now (the clock) is not the
\* one select_next_question returns.
C11_JustAnsweredNotSelected ==
  \A loaded \in {Questions}, history \in {HistoryNow} :
    (loaded.err = "none" /\ history.err = "none" /\ Len(loaded.records) >= 2) =>
      \A qs \in {loaded.records}, h \in {history.records} :
        \A r \in {select_next_question(qs, h, clock)} :
          \A i \in 1..Len(qs) :
            JustAnswered(h, qs[i].id, clock) => r.choice.id # qs[i].id

\* C11 as amended: a question whose latest record has the timestamp of the
\* call's now scores exactly 0, and select_next_question does not return
\* it when the list holds a question that has no record or was last
\* answered before now.
C11_JustAnsweredScoresZero ==
  \A loaded \in {Questions}, history \in {HistoryNow} :
    (loaded.err = "none" /\ history.err = "none" /\ Len(loaded.records) >= 2) =>
      \A qs \in {loaded.records}, h \in {history.records} :
        \A r \in {select_next_question(qs, h, clock)} :
          \A i \in 1..Len(qs) :
            JustAnswered(h, qs[i].id, clock) =>
              /\ compute_priority(qs[i], h, clock) = 0
              /\ (\E j \in 1..Len(qs) : DueAgain(h, qs[j].id, clock)) =>
                   r.choice.id # qs[i].id

\* main() has chosen from two questions with records, one answered at this
\* very clock and at an earlier one, the other before: it chose the other
C11_Witness ==
  /\ BothLoaded
  /\ result = MainResult
  /\ result.err = "none"
  /\ LET qs == Questions.records
         h == HistoryNow.records
     IN /\ Len(qs) >= 2
        /\ \E i, j \in 1..Len(qs) :
             /\ JustAnswered(h, qs[i].id, clock)
             /\ Seen(h, qs[j].id)
             /\ DueAgain(h, qs[j].id, clock)
             /\ compute_priority(qs[i], h, clock) = 0
             /\ result.choice = qs[j]
             /\ result.choice.id # qs[i].id

(* ---------- C12 ---------- *)

\* the history after one more record_result for the question, loaded again
Appended(h, qid, attempts, correct, now) ==
  Append(h, HistoryFromDict(Entry(qid, attempts, DefaultSeconds, correct, now), now))

\* miss_factor after the new record, in fifths
After(h, qid, attempts, correct, now) ==
  MissFactor(Appended(h, qid, attempts, correct, now), qid)

\* by how much the new record raises miss_factor
Raise(h, qid, attempts, correct, now) ==
  After(h, qid, attempts, correct, now) - MissFactor(h, qid)

\* the attempts of a correct record that weigh what marking a record
\* incorrect weighs: (1.2 - 0.2) / 0.2
WeightGap == (IncorrectWeight5 - CorrectWeight5) \div CorrectWeight5

\* C12 as claimed: whatever their attempts a1, a2 >= 1, one more incorrect
\* record raises miss_factor by strictly more than one more correct record.
\* (inc and cor hold the pairs of the attempts and the raise.)
C12_IncorrectWeighsMore ==
  \A history \in {HistoryNow} :
    history.err = "none" =>
      \A h \in {history.records}, qid \in QIds :
        \A before \in {MissFactor(h, qid)} :
          \A inc \in {{<<a, After(h, qid, a, FALSE, clock) - before>> : a \in 1..MaxAttempts}},
             cor \in {{<<a, After(h, qid, a, TRUE, clock) - before>> : a \in 1..MaxAttempts}} :
            \A a1 \in inc, a2 \in cor : a1[2] > a2[2]

\* C12 as amended: one more incorrect record with attempts a1 raises
\* miss_factor by 1.0 + 0.2 * a1, one more correct record with attempts a2
\* by 0.2 * a2; the incorrect one raises it by strictly more when
\* a2 < a1 + 5 (so always for equal attempts), by strictly less when
\* a2 > a1 + 5.
C12_IncorrectWeighsMoreWithinGap ==
  \A history \in {HistoryNow} :
    history.err = "none" =>
      \A h \in {history.records}, qid \in QIds :
        \A before \in {MissFactor(h, qid)} :
          \A inc \in {{<<a, After(h, qid, a, FALSE, clock) - before>> : a \in 1..MaxAttempts}},
             cor \in {{<<a, After(h, qid, a, TRUE, clock) - before>> : a \in 1..MaxAttempts}} :
            \A a1 \in inc, a2 \in cor :
              /\ a1[2] = IncorrectWeight5 + (a1[1] - 1) * CorrectWeight5
              /\ a2[2] = a2[1] * CorrectWeight5
              /\ a2[1] < a1[1] + WeightGap => a1[2] > a2[2]
              /\ a2[1] > a1[1] + WeightGap => a1[2] < a2[2]

\* main() has scored a question with two records in the log, the second
\* an incorrect one: that record raised miss_factor by more than a correct
\* record with one attempt would have, by less than one with MaxAttempts
C12_Witness ==
  /\ BothLoaded
  /\ result = MainResult
  /\ result.err = "none"
  /\ LET h == HistoryNow.records
     IN /\ Len(h) = 2
        /\ h[1].question_id = h[2].question_id
        /\ ~h[2].correct
        /\ \E i \in 1..Len(Questions.records) : Questions.records[i].id = h[2].question_id
        /\ LET before == SubSeq(h, 1, 1)
               qid == h[2].question_id
               inc == MissFactor(h, qid) - MissFactor(before, qid)
           IN /\ inc = Raise(before, qid, h[2].attempts, FALSE, h[2].timestamp)
              /\ inc > Raise(before, qid, 1, TRUE, clock)
              /\ inc < Raise(before, qid, MaxAttempts, TRUE, clock)

====
